---- MODULE Spec2Model ----
(***************************************************************************)
(* Model of blaming-diff-filter's DiffAnnotator (src/src/annotate.rs).     *)
(*                                                                         *)
(* Text is modelled character by character: a line, a path, a prefix and   *)
(* a revision identifier are sequences of one-character strings.  An       *)
(* Option<T> is a sequence of length at most one: <<>> is None and <<v>>   *)
(* is Some(v).  ESC stands for one complete terminal escape sequence.      *)
(***************************************************************************)
EXTENDS Integers, Sequences, FiniteSets, TLC

VARIABLES
    pc,          \* position of the main flow: "new", "diff", "feed", "write", "join", "done", "failed", "panicked"
    status,      \* how the main flow's loop ended or will end: "ok", "err", "panic"
    back_to,     \* Option<Vec<String>> given to new()
    gitHead,     \* backend: commit HEAD resolves to (0: rev-parse HEAD fails)
    gitRefs,     \* backend: branch name -> commit it resolves to (0: rev-parse fails)
    touched,     \* backend: for each line of the old file, the commit that last touched it
    inner,       \* Option: the inner filter command
    rev,         \* DiffAnnotator.rev
    commits,     \* DiffAnnotator.commits
    candidates,  \* DiffAnnotator.candidates
    file,        \* DiffAnnotator.file
    start,       \* DiffAnnotator.start
    offset,      \* DiffAnnotator.offset
    maxlen,      \* DiffAnnotator.maxlen
    todo,        \* reader: lines of the input's fixed head not yet read
    free,        \* reader: number of lines read after the fixed head
    input,       \* reader: the lines read so far
    prefixes,    \* history: what process_line returned for each line read
    blames,      \* history: the blame queries issued
    out,         \* writer: the lines written to the final output
    line,        \* feeding activity: the line being fed (Option)
    queue,       \* mpsc channel tx -> rx
    stdin,       \* the filter's input pipe
    stdinOpen,   \* the feeding side still holds the pipe's write end
    held,        \* the filter: lines read and not yet written
    stdout,      \* the filter's output pipe
    stdoutOpen,  \* the filter still holds the pipe's write end
    dpc,         \* draining activity: "read", "recv", "exit", "error"
    dline,       \* draining activity: the output line in hand (Option)
    surplus,     \* the filter: output lines written beyond one per line read
    format,      \* DiffAnnotator.format
    gitLog,      \* backend: commit -> the lines git show prints for it
    shown,       \* history: the batch result of git show (Option)
    summary      \* cand_writer: the lines written to the candidate summary

vars == <<pc, status, back_to, gitHead, gitRefs, touched, inner, rev, commits, candidates,
          file, start, offset, maxlen, todo, free, input, prefixes, blames, out, line,
          queue, stdin, stdinOpen, held, stdout, stdoutOpen, dpc, dline,
          surplus, format, gitLog, shown, summary>>

annotator == <<commits, candidates, file, start, offset, maxlen>>
backend == <<back_to, gitHead, gitRefs, touched>>
reader == <<todo, free, input>>
pipeline == <<line, queue, stdin, stdinOpen, held, stdout, stdoutOpen, dpc, dline>>
legend == <<shown, summary>>
others == <<surplus, format, gitLog>>

(***************************************************************************)
(* Bounds of the model.                                                    *)
(***************************************************************************)
MaxLines == 3        \* input lines read after the input's fixed head
MaxBackTo == 2       \* number of --back-to revisions
PipeCap == 1         \* lines an OS pipe buffer holds
MaxHeld == 1         \* lines the filter has read and not yet written
MaxShown == 3        \* lines of a batch result of git show
MaxSurplus == 1      \* output lines a filter writes beyond one per line read

(***************************************************************************)
(* Program constants.                                                      *)
(***************************************************************************)
ABBREV == 6

None == <<>>
Some(v) == <<v>>
IsSome(o) == o # <<>>
Unwrap(o) == o[1]

ESC == "ESC"
Max(a, b) == IF a > b THEN a ELSE b
Min(a, b) == IF a < b THEN a ELSE b

(***************************************************************************)
(* String helpers, as the standard library computes them.                  *)
(***************************************************************************)
starts_with(s, p) == Len(s) >= Len(p) /\ SubSeq(s, 1, Len(p)) = p

strip_prefix(s, p) == IF starts_with(s, p) THEN Some(SubSeq(s, Len(p) + 1, Len(s))) ELSE None

repeat(c, n) == [i \in 1..n |-> c]

\* str::split(sep): the fields between separators, empty ones included
split(s, sep) ==
    LET seps == {i \in 1..Len(s) : s[i] = sep}
        n == Cardinality(seps)
        \* the position of the k-th separator; 0 before the first, Len(s)+1 after the last
        pos(k) == IF k = 0 THEN 0
                  ELSE IF k > n THEN Len(s) + 1
                  ELSE CHOOSE i \in seps : Cardinality({j \in seps : j <= i}) = k
    IN  [k \in 1..(n + 1) |-> SubSeq(s, pos(k - 1) + 1, pos(k) - 1)]

split_whitespace(s) == SelectSeq(split(s, " "), LAMBDA t : t # <<>>)

Digits == <<"0", "1", "2", "3", "4", "5", "6", "7", "8", "9">>
IsDigit(c) == \E d \in 1..10 : Digits[d] = c
DigitVal(c) == (CHOOSE d \in 1..10 : Digits[d] = c) - 1

RECURSIVE DigitsVal(_)
DigitsVal(s) == IF s = <<>> THEN 0 ELSE 10 * DigitsVal(SubSeq(s, 1, Len(s) - 1)) + DigitVal(s[Len(s)])

\* str::parse::<u32>(): an optional '+', then one or more digits.  The numbers of
\* the model's inputs have one digit, so the u32 range is never left.
parse_u32(s) ==
    LET d == IF s # <<>> /\ Head(s) = "+" THEN Tail(s) ELSE s
    IN  IF d # <<>> /\ (\A i \in 1..Len(d) : IsDigit(d[i]))
        THEN Some(DigitsVal(d)) ELSE None

\* strip_ansi_escapes::strip_str: the text without its escape sequences
strip_str(s) == SelectSeq(s, LAMBDA c : c # ESC)

(***************************************************************************)
(* The revision-control backend (git), an external collaborator.           *)
(* History is linear: commit 1 is the parent of commit 2, and so on.       *)
(* Commit 0 stands for "no commit" (a line not committed yet).             *)
(***************************************************************************)
Commits == {1, 2}
NotCommitted == 0
Branches == {"main", "topic"}
RepoFile == <<"f">>

\* the identifier git blame prints for a commit with --abbrev=5
CommitId(c) ==
    CASE c = 1 -> <<"b", "4", "0", "c", "1", "d">>
      [] c = 2 -> <<"6", "e", "c", "7", "d", "b", "1">>
      [] OTHER -> <<"0", "0", "0", "0", "0", "0">>

\* a boundary commit is printed with a caret in the first column
BoundaryId(c) == <<"^">> \o SubSeq(CommitId(c), 1, ABBREV - 1)

HEAD == [range |-> FALSE, base |-> 0]
Range(c) == [range |-> TRUE, base |-> c]

\* git merge-base HEAD <branch>, in a linear history
merge_base(h, b) == Min(h, b)

\* git blame <rev> -L <from>,<to> <path>: one identifier per line from..min(to, lines)
git_blame(r, lines, path, from, to) ==
    LET lno == Len(lines)
        bottom == Max(from, 1)
        top == IF to < 1 \/ lno < to THEN lno ELSE to
        id(c) == IF r.range /\ c # NotCommitted /\ c <= r.base THEN BoundaryId(r.base) ELSE CommitId(c)
    IN  IF path # RepoFile \/ lno < bottom \/ top < bottom
        THEN [ok |-> FALSE, ids |-> <<>>]
        ELSE [ok |-> TRUE, ids |-> [i \in 1..(top - bottom + 1) |-> id(lines[bottom + i - 1])]]

(***************************************************************************)
(* DiffAnnotator::make_blame_rev                                           *)
(***************************************************************************)
\* a slip: no check that the branch is the one HEAD is on
RECURSIVE blame_rev_loop_nobreak(_, _, _)
blame_rev_loop_nobreak(branches, head, refs) ==
    IF branches = <<>> THEN [ok |-> TRUE, rev |-> HEAD]
    ELSE IF refs[Head(branches)] # 0
         THEN IF head = 0 THEN [ok |-> FALSE, rev |-> HEAD]
              ELSE [ok |-> TRUE, rev |-> Range(merge_base(head, refs[Head(branches)]))]
         ELSE blame_rev_loop_nobreak(Tail(branches), head, refs)

\* a slip: continue where the code breaks
RECURSIVE blame_rev_loop_continue(_, _, _)
blame_rev_loop_continue(branches, head, refs) ==
    IF branches = <<>> THEN [ok |-> TRUE, rev |-> HEAD]
    ELSE IF refs[Head(branches)] # 0 /\ head = 0 THEN [ok |-> FALSE, rev |-> HEAD]
    ELSE IF refs[Head(branches)] # 0 /\ refs[Head(branches)] # head
         THEN [ok |-> TRUE, rev |-> Range(merge_base(head, refs[Head(branches)]))]
         ELSE blame_rev_loop_continue(Tail(branches), head, refs)

RECURSIVE blame_rev_loop(_, _, _)
blame_rev_loop(branches, head, refs) ==
    IF branches = <<>> THEN [ok |-> TRUE, rev |-> HEAD]
    ELSE LET branch == Head(branches)
         IN  IF refs[branch] # 0
             THEN IF head = 0 THEN [ok |-> FALSE, rev |-> HEAD]
                  ELSE IF refs[branch] = head
                       THEN [ok |-> TRUE, rev |-> HEAD]   \* break
                       ELSE [ok |-> TRUE, rev |-> Range(merge_base(head, refs[branch]))]
             ELSE blame_rev_loop(Tail(branches), head, refs)

make_blame_rev(backTo, head, refs) ==
    IF IsSome(backTo) THEN blame_rev_loop(Unwrap(backTo), head, refs)
    ELSE [ok |-> TRUE, rev |-> HEAD]

(***************************************************************************)
(* DiffAnnotator::parse_hunk, blame_hunk, lookup_commit, process_line.     *)
(* The annotator's fields travel as a record a; each operator returns the  *)
(* fields as the method leaves them and how the call ended: "ok", "err"    *)
(* (an io::Error) or "panic" (an unwrap of None or Err).                   *)
(***************************************************************************)
\* lines 93-95: the two numbers of the old range, parsed and unwrapped
parse_counts(s, count) ==
    IF ~IsSome(s) THEN [res |-> "panic", start |-> None, end |-> 0]
    ELSE IF ~IsSome(count) THEN [res |-> "panic", start |-> s, end |-> 0]
    ELSE [res |-> "ok", start |-> s, end |-> Unwrap(s) + Unwrap(count)]

\* line 92: the second field without its first character, split at ','
parse_range(old) ==
    CHOOSE h \in {parse_counts(s, count) :
                    s \in {parse_u32(old[1])},
                    count \in {IF Len(old) >= 2 THEN parse_u32(old[2]) ELSE None}} : TRUE

parse_parts(parts) ==
    IF Len(parts) < 2 THEN [res |-> "panic", start |-> None, end |-> 0]
    ELSE CHOOSE h \in {parse_range(old) : old \in {split(Tail(parts[2]), ",")}} : TRUE

parse_hunk(header) ==
    CHOOSE h \in {parse_parts(parts) : parts \in {split_whitespace(header)}} : TRUE

longest(ids, floor) ==
    LET lens == {Len(ids[n]) : n \in 1..Len(ids)} \cup {floor}
    IN  CHOOSE w \in lens : \A v \in lens : v <= w

\* a slip: a failed query is taken for an empty answer
blame_result_degraded(a, end, r, b) ==
    [res |-> "ok",
     a |-> [a EXCEPT !.commits = b.ids, !.maxlen = longest(b.ids, ABBREV), !.offset = a.start],
     query |-> Some([rev |-> r, from |-> a.start, to |-> end, path |-> Unwrap(a.file),
                     ok |-> b.ok, ids |-> b.ids])]

\* lines 100-120: the answer of git blame stored, or its error returned
blame_result(a, end, r, b) ==
    IF ~b.ok
    THEN [res |-> "err", a |-> a,
          query |-> Some([rev |-> r, from |-> a.start, to |-> end, path |-> Unwrap(a.file),
                          ok |-> FALSE, ids |-> <<>>])]
    ELSE [res |-> "ok",
          a |-> [a EXCEPT !.commits = b.ids, !.maxlen = longest(b.ids, ABBREV), !.offset = a.start],
          query |-> Some([rev |-> r, from |-> a.start, to |-> end, path |-> Unwrap(a.file),
                          ok |-> TRUE, ids |-> b.ids])]

blame_range(a, end, r, lines) ==
    CHOOSE x \in {blame_result(a, end, r, b) :
                    b \in {git_blame(r, lines, Unwrap(a.file), a.start, end)}} : TRUE

\* line 99: parse_hunk has assigned self.start when it returns or panics at the count
blame_parsed(a, h, r, lines) ==
    IF h.res # "ok"
    THEN [res |-> "panic", query |-> None,
          a |-> IF IsSome(h.start) THEN [a EXCEPT !.start = Unwrap(h.start)] ELSE a]
    ELSE blame_range([a EXCEPT !.start = Unwrap(h.start)], h.end, r, lines)

blame_hunk(a, header, r, lines) ==
    CHOOSE x \in {blame_parsed(a, h, r, lines) : h \in {parse_hunk(header)}} : TRUE

\* a slip: the index taken from the 1-based line number
lookup_commit_skewed(a) ==
    IF a.start <= a.offset /\ a.offset + 1 < a.start + Len(a.commits)
    THEN Some(a.commits[a.offset - a.start + 2])
    ELSE None

lookup_commit(a) ==
    IF a.start <= a.offset /\ a.offset < a.start + Len(a.commits)
    THEN Some(a.commits[a.offset - a.start + 1])
    ELSE None

\* a slip: only the caret form is recognised
is_boundary_caret_only(commit) == starts_with(commit, <<"^">>)

is_boundary(commit) == starts_with(commit, <<"^">>) \/ \A i \in 1..Len(commit) : commit[i] = "0"

\* a slip: the revisions of the previous hunk are kept
clear_commits_kept(a) == a

\* line 142: self.commits.clear()
clear_commits(a) == [a EXCEPT !.commits = <<>>]

process_stripped(a, l, r, lines) ==
    LET path == strip_prefix(l, <<"-", "-", "-", " ">>)
        commit == lookup_commit(a)
        next == [a EXCEPT !.offset = a.offset + 1]
    IN  IF IsSome(path)
        THEN [res |-> "ok", pfx |-> None, query |-> None,
              a |-> [a EXCEPT !.file = strip_prefix(Unwrap(path), <<"a", "/">>)]]
        ELSE IF starts_with(l, <<"+", "+", "+", " ">>)
        THEN [res |-> "ok", pfx |-> None, query |-> None, a |-> a]
        ELSE IF starts_with(l, <<"@", "@", " ">>)
        THEN IF IsSome(a.file)
             THEN CHOOSE x \in {[res |-> b.res, pfx |-> None, query |-> b.query, a |-> b.a] :
                                 b \in {blame_hunk(a, l, r, lines)}} : TRUE
             ELSE [res |-> "ok", pfx |-> None, query |-> None, a |-> clear_commits(a)]
        ELSE IF starts_with(l, <<" ">>) \/ starts_with(l, <<"-">>)
        THEN IF IsSome(commit)
             THEN IF is_boundary(Unwrap(commit))
                  THEN [res |-> "ok", query |-> None, a |-> next,
                        pfx |-> Some(repeat("·", a.maxlen) \o <<" ">>)]
                  ELSE [res |-> "ok", query |-> None,
                        a |-> [next EXCEPT !.candidates = @ \cup {Unwrap(commit)}],
                        pfx |-> Some(Unwrap(commit) \o <<" ">>)]
             ELSE [res |-> "ok", query |-> None, a |-> next,
                   pfx |-> Some(repeat("?", a.maxlen) \o <<" ">>)]
        ELSE IF starts_with(l, <<"+">>)
        THEN [res |-> "ok", query |-> None, a |-> a,
              pfx |-> Some(repeat("+", a.maxlen) \o <<" ">>)]
        ELSE [res |-> "ok", pfx |-> None, query |-> None, a |-> a]

process_line(a, raw, r, lines) ==
    CHOOSE x \in {process_stripped(a, l, r, lines) : l \in {strip_str(raw)}} : TRUE

(***************************************************************************)
(* The input.  A diff is a fixed head followed by up to MaxLines lines     *)
(* drawn from LinePool; the reader may report end of input after any line. *)
(***************************************************************************)
FileOld == <<"-", "-", "-", " ", "a", "/", "f">>
FileOldNull == <<"-", "-", "-", " ", "/", "d", "e", "v", "/", "n", "u", "l", "l">>
FileNew == <<"+", "+", "+", " ", "b", "/", "f">>
Hunk == <<"@", "@", " ", "-", "2", ",", "2", " ", "+", "2", ",", "2", " ", "@", "@">>
HunkNoCount == <<"@", "@", " ", "-", "2", " ", "+", "2", " ", "@", "@">>
HunkBadStart == <<"@", "@", " ", "-", "x", ",", "2", " ", "+", "2", ",", "2", " ", "@", "@">>
Context == <<ESC, " ", "@", "@", " ", "x", ESC>>
Removed == <<"-", "-", "-", "-", " ", "x">>
Added == <<"+", "+", "+", "+", " ", "x">>
Other == <<"i", "n", "d", "e", "x">>

LinePool == {FileOld, FileOldNull, FileNew, Hunk, HunkNoCount, HunkBadStart,
             Context, Removed, Added, Other}
\* the lines read in wrapping mode; fewer kinds when the filter writes lines of its own
WrapPool == IF inner = Some("more") THEN {Context, Added} ELSE {FileOld, Hunk, Context, Added}
Heads == {<<>>, <<FileOld, Hunk>>}

\* the old file's blame history, per scenario
Histories == {<<1, 1, 2>>, <<1, 2, 0, 1>>, <<2>>, <<1, 1>>}

Refs(m, t) == [b \in Branches |-> IF b = "main" THEN m ELSE t]

\* the lines the reader can return next
NextLines(pool) ==
    IF todo # <<>> THEN {Head(todo)}
    ELSE IF free < MaxLines THEN pool ELSE {}

Read(l) ==
    /\ input' = Append(input, l)
    /\ IF todo # <<>>
       THEN todo' = Tail(todo) /\ free' = free
       ELSE todo' = todo /\ free' = free + 1

Fields == [commits |-> commits, candidates |-> candidates, file |-> file,
           start |-> start, offset |-> offset, maxlen |-> maxlen]

Store(a) ==
    /\ commits' = a.commits
    /\ candidates' = a.candidates
    /\ file' = a.file
    /\ start' = a.start
    /\ offset' = a.offset
    /\ maxlen' = a.maxlen

\* the blame history after a call of process_line on the next line read
Asked(query) ==
    IF IsSome(query) THEN Append(blames, [at |-> Len(input) + 1, q |-> Unwrap(query)])
    ELSE blames

\* a slip: the line written is the one process_line parsed, without its escape sequences
Written_stripped(pfx, l) == (IF IsSome(pfx) THEN Unwrap(pfx) ELSE <<>>) \o strip_str(l)

\* what write!(writer, "{}", pfx) followed by writeln!(writer, "{}", line) appends
Written(pfx, l) == (IF IsSome(pfx) THEN Unwrap(pfx) ELSE <<>>) \o l

(***************************************************************************)
(* DiffAnnotator::annotate_diff, lines 237-263: the candidate summary.     *)
(* git show prints, for each revision it is given, the lines of that       *)
(* commit's record ("%at " and the format); given no revision it shows     *)
(* HEAD.  The numbers of the model's records have at most two digits, so   *)
(* the u64 range is never left.                                            *)
(***************************************************************************)
CommitOf(id) == CHOOSE c \in Commits : CommitId(c) = id

\* the orders in which a HashSet can be iterated
Orders(S) == {o \in [1..Cardinality(S) -> S] : \A i, j \in 1..Cardinality(S) : o[i] = o[j] => i = j}

RECURSIVE records(_, _)
records(args, log) ==
    IF args = <<>> THEN <<>> ELSE log[CommitOf(Head(args))] \o records(Tail(args), log)

\* git show -s --format=... <args>: the batch result, line by line
git_show(args, head, log) == IF args = <<>> THEN log[head] ELSE records(args, log)

\* lines 249-253: the first field as a number, 0 when missing or not a number
sort_key(l) ==
    LET fields == split_whitespace(l)
        n == IF fields = <<>> THEN Some(0) ELSE parse_u32(fields[1])
    IN  IF IsSome(n) THEN Unwrap(n) ELSE 0

\* slice::sort_by_key is stable: a line goes after the lines whose key is not larger
RECURSIVE insert_by_key(_, _)
insert_by_key(sorted, l) ==
    IF sorted = <<>> THEN <<l>>
    ELSE IF sort_key(sorted[Len(sorted)]) <= sort_key(l) THEN Append(sorted, l)
    ELSE Append(insert_by_key(SubSeq(sorted, 1, Len(sorted) - 1), l), sorted[Len(sorted)])

RECURSIVE sort_by_key(_)
sort_by_key(lines) ==
    IF lines = <<>> THEN <<>>
    ELSE insert_by_key(sort_by_key(SubSeq(lines, 1, Len(lines) - 1)), lines[Len(lines)])

\* slice::join(" ")
RECURSIVE join(_)
join(words) ==
    IF words = <<>> THEN <<>>
    ELSE IF Len(words) = 1 THEN words[1]
    ELSE words[1] \o <<" ">> \o join(Tail(words))

\* lines 256-260: the fields after the first, joined by one space
skip_first(l) ==
    CHOOSE t \in {IF fields = <<>> THEN <<>> ELSE join(Tail(fields)) :
                    fields \in {split_whitespace(l)}} : TRUE

\* lines 247-262: what is written to cand_writer for a batch result
summary_lines(batch) ==
    CHOOSE w \in {[i \in 1..Len(sorted) |-> skip_first(sorted[i])] :
                    sorted \in {sort_by_key(batch)}} : TRUE

\* lines 237-263: the rest of annotate_diff once the diff has been written
Summarize(ok) ==
    IF ok /\ IsSome(format)
    THEN \E args \in Orders(candidates) : \E batch \in {git_show(args, gitHead, gitLog)} :
            /\ shown' = Some(batch)
            /\ summary' = summary_lines(batch)
    ELSE UNCHANGED legend

\* the state of the configuration and of the summary after construction
Configured(fmt, log) ==
    /\ format = fmt
    /\ gitLog = log
    /\ shown = None
    /\ summary = <<>>
    /\ surplus = 0

(***************************************************************************)
(* DiffAnnotator::new: the state after construction.                       *)
(***************************************************************************)
Constructed(bt, head, refs, hist, cmd, heads) ==
    /\ back_to = bt
    /\ gitHead = head
    /\ gitRefs = refs
    /\ touched = hist
    /\ inner = cmd
    /\ make_blame_rev(bt, head, refs).ok
    /\ rev = make_blame_rev(bt, head, refs).rev
    /\ commits = <<>>
    /\ candidates = {}
    /\ file = None
    /\ start = 0
    /\ offset = 0
    /\ maxlen = 0
    /\ pc = IF IsSome(cmd) THEN "feed" ELSE "diff"
    /\ status = "ok"
    /\ todo \in heads
    /\ free = 0
    /\ input = <<>>
    /\ prefixes = <<>>
    /\ blames = <<>>
    /\ out = <<>>
    /\ line = None
    /\ queue = <<>>
    /\ stdin = <<>>
    /\ stdinOpen = IsSome(cmd)
    /\ held = <<>>
    /\ stdout = <<>>
    /\ stdoutOpen = IsSome(cmd)
    /\ dpc = IF IsSome(cmd) THEN "read" ELSE "exit"
    /\ dline = None

RECURSIVE SeqsUpTo(_, _)
SeqsUpTo(S, n) ==
    IF n = 0 THEN {<<>>}
    ELSE SeqsUpTo(S, n - 1) \cup {Append(q, x) : q \in SeqsUpTo(S, n - 1), x \in S}

BackTos == {None, Some(<<"main">>)}

\* the records of the backend's commits: "%at " and the formatted text
Log == [c \in Commits |-> IF c = 1 THEN <<<<"3", " ", "o", "n", "e">>>>
                                   ELSE <<<<"1", "0", " ", "t", "w", "o">>>>]
Format == <<"%", "s">>

InitDirect ==
    /\ \E bt \in BackTos, m \in Commits, hist \in Histories :
          Constructed(bt, 2, Refs(m, 0), hist, None, Heads)
    /\ Configured(None, Log)

(***************************************************************************)
(* DiffAnnotator::new as a step of its own: the arguments and the          *)
(* backend's answers are drawn first, then new() runs make_blame_rev.      *)
(***************************************************************************)
InitRev ==
    /\ pc = "new"
    /\ status = "ok"
    /\ back_to \in {None} \cup {Some(bs) : bs \in SeqsUpTo(Branches, MaxBackTo)}
    /\ gitHead \in Commits \cup {0}
    /\ gitRefs \in [Branches -> Commits \cup {0}]
    /\ touched = <<>>
    /\ inner = None
    /\ rev = HEAD
    /\ commits = <<>> /\ candidates = {} /\ file = None
    /\ start = 0 /\ offset = 0 /\ maxlen = 0
    /\ todo = <<>> /\ free = 0 /\ input = <<>>
    /\ prefixes = <<>> /\ blames = <<>> /\ out = <<>>
    /\ line = None /\ queue = <<>> /\ stdin = <<>> /\ stdinOpen = FALSE
    /\ held = <<>> /\ stdout = <<>> /\ stdoutOpen = FALSE
    /\ dpc = "exit" /\ dline = None
    /\ Configured(None, Log)

New ==
    /\ pc = "new"
    /\ \E m \in {make_blame_rev(back_to, gitHead, gitRefs)} :
        /\ rev' = m.rev
        /\ pc' = IF m.ok THEN "diff" ELSE "failed"
        /\ status' = IF m.ok THEN "ok" ELSE "err"
    /\ UNCHANGED <<backend, others, legend, inner, annotator, reader, prefixes, blames, out, pipeline>>

NextRev == New

SpecRev == InitRev /\ [][NextRev]_vars

(***************************************************************************)
(* DiffAnnotator::simple_diff (direct mode)                                *)
(***************************************************************************)
SimpleLine ==
    /\ pc = "diff"
    /\ \E l \in NextLines(LinePool) : \E r \in {process_line(Fields, l, rev, touched)} :
            /\ Read(l)
            /\ Store(r.a)
            /\ blames' = Asked(r.query)
            /\ IF r.res = "ok"
               THEN /\ out' = Append(out, Written(r.pfx, l))
                    /\ prefixes' = Append(prefixes, r.pfx)
                    /\ UNCHANGED <<pc, status>>
               ELSE /\ status' = r.res
                    /\ pc' = IF r.res = "err" THEN "failed" ELSE "panicked"
                    /\ UNCHANGED <<out, prefixes>>
    /\ UNCHANGED <<backend, others, legend, inner, rev, pipeline>>

SimpleEof ==
    /\ pc = "diff"
    /\ todo = <<>>
    /\ pc' = "done"
    /\ Summarize(TRUE)
    /\ UNCHANGED <<status, backend, others, inner, rev, annotator, reader, prefixes, blames, out, pipeline>>

NextDirect == SimpleLine \/ SimpleEof

SpecDirect == InitDirect /\ [][NextDirect]_vars

(***************************************************************************)
(* The candidate summary alone: a run on an empty diff with a format       *)
(* configured.  No revision is collected, git show prints the record of    *)
(* HEAD, and the lines of that record are drawn from LogLines.             *)
(***************************************************************************)
LogLines == {<<"1", "0", " ", "a">>, <<"3", " ", "b">>, <<"3", " ", "c", " ", " ", "d">>,
             <<"7", " ", "e">>, <<"x", " ", "f">>, <<>>}

InitSort ==
    /\ Constructed(None, 2, Refs(0, 0), <<1, 1>>, None, {<<>>})
    /\ \E batch \in SeqsUpTo(LogLines, MaxShown) :
          Configured(Some(Format), [c \in Commits |-> IF c = 2 THEN batch ELSE Log[c]])

NextSort == SimpleEof

SpecSort == InitSort /\ [][NextSort]_vars

(***************************************************************************)
(* DiffAnnotator::wrapping_diff (wrapping mode).  Three activities run     *)
(* concurrently: the feeding loop of the main flow, the inner filter (a    *)
(* separate process behind two pipes) and the draining thread.  Each       *)
(* action is one step between two points where an activity can block.      *)
(***************************************************************************)
Upper(c) ==
    CASE c = "a" -> "A" [] c = "b" -> "B" [] c = "f" -> "F" [] c = "x" -> "X" [] OTHER -> c

\* the inner filter's output line for an input line: cat, or tr [:lower:] [:upper:]
Transform(cmd, l) == IF cmd = "tr" THEN [n \in 1..Len(l) |-> Upper(l[n])] ELSE l

Filters == {"cat", "tr"}
WrapHistories == {<<1, 1, 2>>, <<2>>}

InitWrap ==
    /\ \E hist \in WrapHistories, cmd \in Filters :
          Constructed(None, 2, Refs(0, 0), hist, Some(cmd), Heads)
    /\ Configured(None, Log)

\* a slip: the newest entry is taken
recv_newest(q) == [entry |-> q[Len(q)], rest |-> SubSeq(q, 1, Len(q) - 1)]

\* mpsc::Receiver::recv on a non-empty channel: the oldest entry, and the rest
recv(q) == [entry |-> Head(q), rest |-> Tail(q)]

\* a slip: the line is written before its prefix
Paired_after(entry, l) == l \o (IF IsSome(entry) THEN Unwrap(entry) ELSE <<>>)

\* lines 185-190: the prefix if the entry has one, then the line
Paired(entry, l) == (IF IsSome(entry) THEN Unwrap(entry) ELSE <<>>) \o l

\* a slip: the pipe's write end is never dropped
stdin_kept == TRUE

\* line 200: drop(stdin) closes the write end of the filter's input pipe
stdin_dropped == FALSE

\* a slip: tx is dropped together with stdin, before the join
tx_dropped_before_join == pc \in {"feed", "write"}

\* line 178: tx is a local of wrapping_diff, borrowed by the scope's closure; it is
\* dropped when wrapping_diff returns, after the join
tx_alive == pc \in {"feed", "write", "join"}

\* a slip: no entry is sent for a line without prefix
Sent_prefixes_only(q, pfx) == IF IsSome(pfx) THEN Append(q, pfx) ELSE q

\* line 196: tx.send(entry) on the unbounded channel
Sent(q, pfx) == Append(q, pfx)

\* lines 194-197: read a line, process_line, tx.send; an error leaves the closure,
\* which drops stdin
FeedLine ==
    /\ pc = "feed"
    /\ \E l \in NextLines(WrapPool) : \E r \in {process_line(Fields, l, rev, touched)} :
            /\ Read(l)
            /\ Store(r.a)
            /\ blames' = Asked(r.query)
            /\ IF r.res = "ok" /\ dpc \notin {"exit", "error"}
               THEN /\ queue' = Sent(queue, r.pfx)
                    /\ prefixes' = Append(prefixes, r.pfx)
                    /\ line' = Some(l)
                    /\ pc' = "write"
                    /\ UNCHANGED <<status, stdinOpen>>
               ELSE /\ status' = IF r.res = "ok" THEN "err" ELSE r.res
                    /\ stdinOpen' = FALSE
                    /\ pc' = "join"
                    /\ UNCHANGED <<queue, prefixes, line>>
    /\ UNCHANGED <<backend, others, legend, inner, rev, out, stdin, held, stdout, stdoutOpen, dpc, dline>>

\* line 198: writeln!(stdin, line), which blocks while the pipe is full
FeedWrite ==
    /\ pc = "write"
    /\ Len(stdin) < PipeCap
    /\ stdin' = Append(stdin, Unwrap(line))
    /\ line' = None
    /\ pc' = "feed"
    /\ UNCHANGED <<status, backend, others, legend, inner, rev, annotator, reader, prefixes, blames, out,
                   queue, stdinOpen, held, stdout, stdoutOpen, dpc, dline>>

\* lines 194, 200: the reader is at its end; drop(stdin)
FeedEof ==
    /\ pc = "feed"
    /\ todo = <<>>
    /\ stdinOpen' = stdin_dropped
    /\ pc' = "join"
    /\ UNCHANGED <<status, backend, others, legend, inner, rev, annotator, reader, prefixes, blames, out,
                   line, queue, stdin, held, stdout, stdoutOpen, dpc, dline>>

\* a slip: the draining thread is not waited for
Join_unjoined ==
    /\ pc = "join"
    /\ pc' = CASE status = "panic" -> "panicked"
              [] status = "ok" /\ dpc # "error" -> "done"
              [] OTHER -> "failed"
    /\ Summarize(status = "ok" /\ dpc # "error")
    /\ UNCHANGED <<status, backend, others, inner, rev, annotator, reader, prefixes, blames, out, pipeline>>

\* line 201 and the end of the scope: wait for the draining thread
Join ==
    /\ pc = "join"
    /\ dpc \in {"exit", "error"}
    /\ pc' = CASE status = "panic" -> "panicked"
              [] status = "ok" /\ dpc # "error" -> "done"
              [] OTHER -> "failed"
    /\ Summarize(status = "ok" /\ dpc # "error")
    /\ UNCHANGED <<status, backend, others, inner, rev, annotator, reader, prefixes, blames, out, pipeline>>

\* the filter reads a line from its input pipe
FilterRead ==
    /\ stdin # <<>>
    /\ Len(held) < MaxHeld
    /\ held' = Append(held, Head(stdin))
    /\ stdin' = Tail(stdin)
    /\ UNCHANGED <<pc, status, backend, others, legend, inner, rev, annotator, reader, prefixes, blames, out,
                   line, queue, stdinOpen, stdout, stdoutOpen, dpc, dline>>

\* the filter writes the line for the oldest line it holds, blocking while the pipe is full
FilterWrite ==
    /\ held # <<>>
    /\ Len(stdout) < PipeCap
    /\ stdout' = Append(stdout, Transform(Unwrap(inner), Head(held)))
    /\ held' = Tail(held)
    /\ UNCHANGED <<pc, status, backend, others, legend, inner, rev, annotator, reader, prefixes, blames, out,
                   line, queue, stdin, stdinOpen, stdoutOpen, dpc, dline>>

\* the filter sees the end of its input and exits, which closes its output pipe
FilterExit ==
    /\ ~stdinOpen /\ stdin = <<>> /\ held = <<>>
    /\ stdoutOpen
    /\ stdoutOpen' = FALSE
    /\ UNCHANGED <<pc, status, backend, others, legend, inner, rev, annotator, reader, prefixes, blames, out,
                   line, queue, stdin, stdinOpen, held, stdout, dpc, dline>>

\* line 184: stdout.lines() yields the next line, or ends at end of stream
DrainRead ==
    /\ dpc = "read"
    /\ \/ /\ stdout # <<>>
          /\ dline' = Some(Head(stdout))
          /\ stdout' = Tail(stdout)
          /\ dpc' = "recv"
       \/ /\ stdout = <<>> /\ ~stdoutOpen
          /\ dpc' = "exit"
          /\ UNCHANGED <<dline, stdout>>
    /\ UNCHANGED <<pc, status, backend, others, legend, inner, rev, annotator, reader, prefixes, blames, out,
                   line, queue, stdin, stdinOpen, held, stdoutOpen>>

\* lines 185-190: rx.recv(), which blocks while the channel is empty and tx is alive
\* and fails when it is empty and tx is dropped; then the prefix and the line are written
DrainRecv ==
    /\ dpc = "recv"
    /\ \/ /\ queue # <<>>
          /\ queue' = recv(queue).rest
          /\ out' = Append(out, Paired(recv(queue).entry, Unwrap(dline)))
          /\ dline' = None
          /\ dpc' = "read"
       \/ /\ queue = <<>> /\ ~tx_alive
          /\ dpc' = "error"
          /\ UNCHANGED <<queue, out, dline>>
    /\ UNCHANGED <<pc, status, backend, others, legend, inner, rev, annotator, reader, prefixes, blames,
                   line, stdin, stdinOpen, held, stdout, stdoutOpen>>

\* a filter that is not line-preserving writes a line of its own
FilterSurplus ==
    /\ inner = Some("more")
    /\ stdoutOpen
    /\ surplus < MaxSurplus
    /\ Len(stdout) < PipeCap
    /\ stdout' = Append(stdout, <<"m", "o", "r", "e">>)
    /\ surplus' = surplus + 1
    /\ UNCHANGED <<pc, status, backend, format, gitLog, legend, inner, rev, annotator, reader,
                   prefixes, blames, out, line, queue, stdin, stdinOpen, held, stdoutOpen, dpc, dline>>

NextWrap ==
    \/ FeedLine \/ FeedWrite \/ FeedEof \/ Join
    \/ FilterRead \/ FilterWrite \/ FilterExit
    \/ DrainRead \/ DrainRecv

SpecWrap == InitWrap /\ [][NextWrap]_vars

\* the three activities: a thread or a process that can take a step eventually takes it
Feeder == FeedLine \/ FeedWrite \/ FeedEof \/ Join
Filter == FilterRead \/ FilterWrite \/ FilterExit
Drainer == DrainRead \/ DrainRecv

SpecWrapFair ==
    /\ InitWrap /\ [][NextWrap]_vars
    /\ WF_vars(Feeder) /\ WF_vars(Filter) /\ WF_vars(Drainer)

(***************************************************************************)
(* DiffAnnotator::annotate_diff with a format configured, in either mode.  *)
(***************************************************************************)
InitLegend ==
    /\ \E hist \in Histories : Constructed(None, 2, Refs(0, 0), hist, None, Heads)
    /\ Configured(Some(Format), Log)

InitWrapLegend ==
    /\ \E hist \in WrapHistories, cmd \in Filters :
          Constructed(None, 2, Refs(0, 0), hist, Some(cmd), Heads)
    /\ Configured(Some(Format), Log)

NextAnnotate == NextDirect \/ NextWrap

SpecWrapLegend == InitWrapLegend /\ [][NextWrap]_vars

SpecAnnotate == (InitLegend \/ InitWrapLegend) /\ [][NextAnnotate]_vars

(***************************************************************************)
(* Wrapping mode with a filter that writes more lines than it reads.       *)
(***************************************************************************)
InitWrapMore ==
    /\ Constructed(None, 2, Refs(0, 0), <<1, 1, 2>>, Some("more"), Heads)
    /\ Configured(None, Log)

NextWrapMore == NextWrap \/ FilterSurplus

SpecWrapMore ==
    /\ InitWrapMore /\ [][NextWrapMore]_vars
    /\ WF_vars(Feeder) /\ WF_vars(Filter) /\ WF_vars(Drainer)

\* the output simple_diff writes for the given lines, from the annotator's fields a
RECURSIVE simple_diff(_, _, _, _)
simple_diff(a, lines, r, hist) ==
    IF lines = <<>> THEN <<>>
    ELSE CHOOSE w \in {IF x.res # "ok" THEN <<>>
                        ELSE <<Written(x.pfx, Head(lines))>> \o simple_diff(x.a, Tail(lines), r, hist) :
                        x \in {process_line(a, Head(lines), r, hist)}} : TRUE

NewFields == [commits |-> <<>>, candidates |-> {}, file |-> None,
              start |-> 0, offset |-> 0, maxlen |-> 0]

(***************************************************************************)
(* Reading the histories: the kind of each line read (section 3 of the     *)
(* specification), the hunk header a line follows, its rank among the      *)
(* context and removed lines of that hunk, and the blame answer the hunk   *)
(* header got.                                                             *)
(***************************************************************************)
LineKind(raw) ==
    LET l == strip_str(raw)
    IN  IF starts_with(l, <<"-", "-", "-", " ">>) THEN "old"
        ELSE IF starts_with(l, <<"+", "+", "+", " ">>) THEN "new"
        ELSE IF starts_with(l, <<"@", "@", " ">>) THEN "hunk"
        ELSE IF starts_with(l, <<" ">>) THEN "context"
        ELSE IF starts_with(l, <<"-">>) THEN "removed"
        ELSE IF starts_with(l, <<"+">>) THEN "added"
        ELSE "other"

Cursored(raw) == LineKind(raw) \in {"context", "removed"}

\* the position of the last hunk header before line i (0: none)
LastHunk(i) ==
    LET hs == {h \in 1..(i - 1) : LineKind(input[h]) = "hunk"}
    IN  IF hs = {} THEN 0 ELSE CHOOSE h \in hs : \A g \in hs : g <= h

\* the number of context and removed lines from the header at h up to line i
Rank(h, i) == Cardinality({j \in (h + 1)..i : Cursored(input[j])})

\* the header at position h issued a blame query that succeeded
Blamed(h) == \E n \in 1..Len(blames) : blames[n].at = h /\ blames[n].q.ok
BlameOf(h) == blames[CHOOSE n \in 1..Len(blames) : blames[n].at = h].q

Width(ids) == LET lens == {Len(ids[n]) : n \in 1..Len(ids)} \cup {ABBREV}
              IN  CHOOSE w \in lens : \A v \in lens : v <= w

Glyphs == {"·", "?", "+"}
Filled(g, w) == repeat(g, w) \o <<" ">>
\* p is the glyph g repeated some number of times, then one space
IsFilled(p, g) == Len(p) >= 1 /\ p = Filled(g, Len(p) - 1)
IsRealId(id) == id # <<>> /\ id[1] # "^" /\ (\E n \in 1..Len(id) : id[n] # "0")
                /\ (\A n \in 1..Len(id) : id[n] \notin Glyphs \cup {" "})
\* p is a real identifier, then one space
IsIdPrefix(p) == Len(p) >= 2 /\ p[Len(p)] = " " /\ IsRealId(SubSeq(p, 1, Len(p) - 1))

\* the annotation of the k-th entry of a blame result
Annotation(ids, k) ==
    IF k > Len(ids) THEN Filled("?", Width(ids))
    ELSE IF IsRealId(ids[k]) THEN ids[k] \o <<" ">>
    ELSE Filled("·", Width(ids))

(***************************************************************************)
(* C2: in direct mode, after a hunk header with old range start S for a    *)
(* known file, the k-th context or removed line of the hunk is prefixed    *)
(* with the annotation of the blame result's entry for old line S+k-1      *)
(* (the unresolved placeholder when it has none); added and unprefixed     *)
(* lines in between do not advance the cursor, and each context or removed *)
(* line advances it by one, hit or miss.                                   *)
(***************************************************************************)
C2_CursorFollowsBlame ==
    /\ \A i \in 1..Len(prefixes) :
        LET h == LastHunk(i)
        IN  (Cursored(input[i]) /\ h > 0 /\ Blamed(h)) =>
                /\ BlameOf(h).from = Unwrap(parse_hunk(strip_str(input[h])).start)
                /\ prefixes[i] = Some(Annotation(BlameOf(h).ids, Rank(h, i)))
    /\ LET h == LastHunk(Len(prefixes) + 1)
       IN  (h > 0 /\ Blamed(h)) => offset = BlameOf(h).from + Rank(h, Len(prefixes))

\* a second context or removed line of a blamed hunk was annotated after an added line
C2_Witness ==
    \E i \in 1..Len(prefixes) :
        LET h == LastHunk(i)
        IN  /\ Cursored(input[i]) /\ h > 0 /\ Blamed(h) /\ Rank(h, i) = 2
            /\ IsIdPrefix(Unwrap(prefixes[i]))
            /\ \E j \in (h + 1)..(i - 1) : LineKind(input[j]) = "added"

(***************************************************************************)
(* The structure of a unified diff: a hunk header "@@ -s,c +s,c @@" is     *)
(* followed by a body that accounts for c old lines and c new lines; a     *)
(* body line is context, removed or added by its first character.          *)
(***************************************************************************)
HunkCount(field) ==
    LET range == split(Tail(field), ",")
        n == IF Len(range) >= 2 THEN parse_u32(range[2]) ELSE Some(1)
    IN  IF IsSome(n) THEN Unwrap(n) ELSE 0

\* the kind of each line by its place: "context", "removed", "added", or "none"
\* outside a hunk body; old and new are the lines the current body still owes
RECURSIVE BodyKinds(_, _, _)
BodyKinds(lines, old, new) ==
    IF lines = <<>> THEN <<>>
    ELSE LET l == strip_str(Head(lines))
             parts == split_whitespace(l)
         IN  IF old + new > 0 /\ starts_with(l, <<" ">>)
             THEN <<"context">> \o BodyKinds(Tail(lines), Max(old - 1, 0), Max(new - 1, 0))
             ELSE IF old > 0 /\ starts_with(l, <<"-">>)
             THEN <<"removed">> \o BodyKinds(Tail(lines), old - 1, new)
             ELSE IF new > 0 /\ starts_with(l, <<"+">>)
             THEN <<"added">> \o BodyKinds(Tail(lines), old, new - 1)
             ELSE IF starts_with(l, <<"@", "@", " ">>) /\ Len(parts) >= 3
             THEN <<"none">> \o BodyKinds(Tail(lines), HunkCount(parts[2]), HunkCount(parts[3]))
             ELSE <<"none">> \o BodyKinds(Tail(lines), 0, 0)

BodyKind(lines, i) == BodyKinds(lines, 0, 0)[i]

(***************************************************************************)
(* C1: within a hunk, every body line whose first character is space, '-'  *)
(* or '+' is classified as context, removed or added, whatever the rest of *)
(* the line contains: it receives a prefix, a removed line advances the    *)
(* cursor by one, and the current file is left alone.                      *)
(***************************************************************************)
C1_BodyLinesByFirstCharacter ==
    [][(Len(input') = Len(input) + 1 /\ BodyKind(input', Len(input')) # "none") =>
           /\ Len(prefixes') = Len(input')
           /\ IsSome(prefixes'[Len(input')])
           /\ file' = file
           /\ (BodyKind(input', Len(input')) # "added" => offset' = offset + 1)
           /\ (BodyKind(input', Len(input')) = "added" => offset' = offset)]_vars

\* a removed line whose text is "-- /dev/null" was read inside a hunk body of a known file
C1_Witness ==
    /\ Len(input) >= 3
    /\ input[Len(input)] = FileOldNull
    /\ BodyKind(input, Len(input)) = "removed"
    /\ input[Len(input) - 1] = Hunk
    /\ Blamed(Len(input) - 1)

(***************************************************************************)
(* C6: in direct mode the output is the input, line for line and in order, *)
(* each line's text unchanged after an optional prefix; a context or       *)
(* removed line carries a real identifier, the boundary placeholder or the *)
(* unresolved placeholder, an added line carries the filler, and file      *)
(* markers, hunk headers and other lines carry no prefix.                  *)
(***************************************************************************)
C6_DirectOutput ==
    /\ Len(out) = Len(prefixes)
    /\ pc \in {"diff", "done"} => Len(out) = Len(input)
    /\ \A i \in 1..Len(out) :
        /\ out[i] = (IF prefixes[i] = None THEN <<>> ELSE prefixes[i][1]) \o input[i]
        /\ Cursored(input[i]) =>
              /\ IsSome(prefixes[i])
              /\ \/ IsIdPrefix(Unwrap(prefixes[i]))
                 \/ IsFilled(Unwrap(prefixes[i]), "·")
                 \/ IsFilled(Unwrap(prefixes[i]), "?")
        /\ LineKind(input[i]) = "added" =>
              IsSome(prefixes[i]) /\ IsFilled(Unwrap(prefixes[i]), "+")
        /\ LineKind(input[i]) \in {"old", "new", "hunk", "other"} => prefixes[i] = None

\* a finished run wrote a coloured context line with an identifier, an added line
\* and a hunk header
C6_Witness ==
    /\ pc = "done"
    /\ \E i, j, h \in 1..Len(out) :
        /\ input[i] = Context /\ IsIdPrefix(Unwrap(prefixes[i])) /\ ESC \in {out[i][n] : n \in 1..Len(out[i])}
        /\ input[j] = Added /\ out[j] = Filled("+", Len(out[j]) - Len(Added) - 1) \o Added
        /\ input[h] = Hunk /\ out[h] = Hunk

(***************************************************************************)
(* C7: within one hunk, every prefix emitted has the same width: the       *)
(* longest identifier of the hunk's blame result, at least 6, plus the     *)
(* separating space.                                                       *)
(***************************************************************************)
C7_OneWidthPerHunk ==
    \A i \in 1..Len(prefixes) :
        LET h == LastHunk(i)
        IN  (IsSome(prefixes[i]) /\ h > 0 /\ Blamed(h)) =>
                Len(Unwrap(prefixes[i])) = Width(BlameOf(h).ids) + 1

\* a hunk whose blame result has identifiers of 6 and of 7 characters emitted the shorter
C7_Witness ==
    \E i \in 1..Len(prefixes) :
        LET h == LastHunk(i)
        IN  /\ h > 0 /\ Blamed(h) /\ Width(BlameOf(h).ids) = 7
            /\ prefixes[i] = Some(CommitId(1) \o <<" ">>)

(***************************************************************************)
(* C8: the candidate set holds no boundary identifier (one that starts     *)
(* with '^' or is all '0'): those are rendered as the placeholder glyph;   *)
(* the set only grows, and it is the set of the real identifiers emitted   *)
(* as prefixes so far.                                                     *)
(***************************************************************************)
EmittedIds ==
    {SubSeq(Unwrap(prefixes[i]), 1, Len(Unwrap(prefixes[i])) - 1) :
        i \in {j \in 1..Len(prefixes) : IsSome(prefixes[j]) /\ IsIdPrefix(Unwrap(prefixes[j]))}}

C8_CandidatesAreEmittedRealIds ==
    /\ \A c \in candidates : c # <<>> /\ c[1] # "^" /\ \E n \in 1..Len(c) : c[n] # "0"
    /\ candidates = EmittedIds
    /\ \A i \in 1..Len(prefixes) :
        LET h == LastHunk(i)
            k == Rank(h, i)
        IN  (Cursored(input[i]) /\ h > 0 /\ Blamed(h) /\ k <= Len(BlameOf(h).ids)
             /\ ~IsRealId(BlameOf(h).ids[k])) => IsFilled(Unwrap(prefixes[i]), "·")

\* a caret identifier and an all-zero identifier were rendered, and a real one collected
C8_Witness ==
    /\ candidates # {}
    /\ \E n \in 1..Len(blames) : BoundaryId(1) \in {blames[n].q.ids[k] : k \in 1..Len(blames[n].q.ids)}
    /\ \E i \in 1..Len(prefixes) : prefixes[i] = Some(Filled("·", 7))

(***************************************************************************)
(* C3: in wrapping mode the j-th line read from the filter's output is     *)
(* written preceded by exactly the j-th entry enqueued (nothing, when that *)
(* entry is the no-prefix marker), under every interleaving; no entry is   *)
(* skipped, duplicated or reordered.                                       *)
(***************************************************************************)
IsPrefixOf(s, t) == Len(s) <= Len(t) /\ s = SubSeq(t, 1, Len(s))

C3_PrefixesPairedInOrder ==
    /\ Len(out) <= Len(prefixes)
    /\ queue = SubSeq(prefixes, Len(prefixes) - Len(queue) + 1, Len(prefixes))
    /\ Len(out) = Len(prefixes) - Len(queue)
    /\ \A j \in 1..Len(out) :
        out[j] = (IF prefixes[j] = None THEN <<>> ELSE prefixes[j][1])
                 \o Transform(Unwrap(inner), input[j])

\* two entries with different prefixes waited in the queue, and both were paired later
C3_Witness ==
    /\ Len(out) >= 3
    /\ prefixes[2] = None /\ prefixes[3] # None
    /\ inner = Some("tr")
    /\ out[3] # input[3]

(***************************************************************************)
(* C4: for an inner filter that is the identity transform, the output of   *)
(* wrapping mode is the output of direct mode on the same input and the    *)
(* same backend answers, under every interleaving.                         *)
(***************************************************************************)
C4_IdentityFilterMatchesDirect ==
    inner = Some("cat") =>
        /\ IsPrefixOf(out, simple_diff(NewFields, input, rev, touched))
        /\ pc \in {"done", "failed"} => out = simple_diff(NewFields, input, rev, touched)

\* a finished run through the identity filter wrote annotated and plain lines
C4_Witness ==
    /\ inner = Some("cat") /\ pc = "done"
    /\ Len(out) >= 4
    /\ \E i, j \in 1..Len(out) : prefixes[i] = None /\ IsSome(prefixes[j]) /\ IsIdPrefix(Unwrap(prefixes[j]))

(***************************************************************************)
(* C5: in wrapping mode with a line-preserving filter and pipes of finite  *)
(* capacity no reachable state is a deadlock: the drainer never waits on   *)
(* an empty queue while the feeder waits on a full pipe, and some activity *)
(* can step until the run has ended; under fair scheduling every run ends, *)
(* a run without error with every line written.                            *)
(***************************************************************************)
Ended == pc \in {"done", "failed", "panicked"}

\* each activity can take its next step
FeederCanStep ==
    \/ pc = "feed"
    \/ pc = "write" /\ Len(stdin) < PipeCap
    \/ pc = "join" /\ dpc = "exit"
FilterCanStep ==
    \/ stdin # <<>> /\ Len(held) < MaxHeld
    \/ held # <<>> /\ Len(stdout) < PipeCap
    \/ ~stdinOpen /\ stdin = <<>> /\ held = <<>> /\ stdoutOpen
DrainerCanStep ==
    \/ dpc = "read" /\ (stdout # <<>> \/ ~stdoutOpen)
    \/ dpc = "recv" /\ queue # <<>>

NoDeadlock ==
    /\ ~(pc = "write" /\ Len(stdin) >= PipeCap /\ dpc = "recv" /\ queue = <<>>)
    /\ Ended \/ FeederCanStep \/ FilterCanStep \/ DrainerCanStep

C5_NoDeadlockAndCompletion ==
    /\ []NoDeadlock
    /\ <>Ended
    /\ [](pc = "done" => Len(out) = Len(input))

\* the feeder waited on a full input pipe while the filter waited on a full output pipe
C5_Witness ==
    /\ pc = "write" /\ Len(stdin) >= PipeCap
    /\ Len(held) >= MaxHeld /\ Len(stdout) >= PipeCap
    /\ dpc = "recv"

(***************************************************************************)
(* C9 as claimed: with back-to revisions configured, the blame base is the *)
(* range                                                                   *)
(* starting at the merge base of head and the first configured revision    *)
(* whose resolved identifier differs from head's, also when an earlier     *)
(* configured revision resolves to head's identifier; blame runs against   *)
(* head only if no configured revision differs from head.                  *)
(***************************************************************************)
Differing(bs) == {i \in 1..Len(bs) : gitRefs[bs[i]] # 0 /\ gitRefs[bs[i]] # gitHead}
FirstDiffering(bs) == CHOOSE i \in Differing(bs) : \A j \in Differing(bs) : i <= j

C9_FirstDifferingRevisionWins ==
    (pc = "diff" /\ IsSome(back_to)) =>
        IF Differing(Unwrap(back_to)) # {}
        THEN rev = Range(merge_base(gitHead, gitRefs[Unwrap(back_to)[FirstDiffering(Unwrap(back_to))]]))
        ELSE rev = HEAD

(***************************************************************************)
(* C9 as amended: the first configured revision that resolves decides: if  *)
(* its identifier differs from head's, the blame base is the range         *)
(* starting at the merge base of head and that revision; if it is head's   *)
(* identifier (whatever later revisions resolve to), or if no configured   *)
(* revision resolves, blame runs against head directly.                    *)
(***************************************************************************)
Resolving(bs) == {i \in 1..Len(bs) : gitRefs[bs[i]] # 0}
FirstResolving(bs) == CHOOSE i \in Resolving(bs) : \A j \in Resolving(bs) : i <= j

C9_FirstResolvingRevisionDecides ==
    /\ (pc = "diff" /\ IsSome(back_to)) =>
          IF Resolving(Unwrap(back_to)) # {}
             /\ gitRefs[Unwrap(back_to)[FirstResolving(Unwrap(back_to))]] # gitHead
          THEN rev = Range(merge_base(gitHead, gitRefs[Unwrap(back_to)[FirstResolving(Unwrap(back_to))]]))
          ELSE rev = HEAD
    /\ (pc = "diff" /\ ~IsSome(back_to)) => rev = HEAD
    /\ pc = "failed" => IsSome(back_to) /\ Resolving(Unwrap(back_to)) # {} /\ gitHead = 0

\* new() ran with a first revision that resolves to head's identifier and a second that differs
C9_Witness ==
    /\ pc = "diff" /\ IsSome(back_to) /\ Len(Unwrap(back_to)) = 2
    /\ gitRefs[Unwrap(back_to)[1]] = gitHead
    /\ Differing(Unwrap(back_to)) = {2}

(***************************************************************************)
(* C10 as claimed: when the back-to revision resolves to head's            *)
(* identifier, blame is still limited to the range starting there, so      *)
(* every context or removed line last touched at or before it is rendered  *)
(* with the boundary placeholder.                                          *)
(***************************************************************************)
\* the context or removed line i has an entry in its hunk's blame result
Resolved(i) ==
    /\ Cursored(input[i]) /\ LastHunk(i) > 0 /\ Blamed(LastHunk(i))
    /\ Rank(LastHunk(i), i) <= Len(BlameOf(LastHunk(i)).ids)
\* the commit that last touched the old line of a resolved line i
TouchedBy(i) == touched[BlameOf(LastHunk(i)).from + Rank(LastHunk(i), i) - 1]
WidthAt(i) == Width(BlameOf(LastHunk(i)).ids)
BackToRef == gitRefs[Unwrap(back_to)[1]]

C10_BackToHeadStillLimits ==
    (IsSome(back_to) /\ BackToRef = gitHead) =>
        \A i \in 1..Len(prefixes) :
            (Resolved(i) /\ TouchedBy(i) \in Commits /\ TouchedBy(i) <= BackToRef) =>
                prefixes[i] = Some(Filled("·", WidthAt(i)))

(***************************************************************************)
(* C10 as amended: when the back-to revision resolves to head's            *)
(* identifier it is ignored: blame runs against head with no range and     *)
(* every resolved line keeps the identifier of its commit.  When it        *)
(* resolves to another identifier, blame is limited to the range starting  *)
(* at the merge base: lines last touched at or before the merge base are   *)
(* rendered with the boundary placeholder, later ones keep their           *)
(* identifier.                                                             *)
(***************************************************************************)
C10_BackToHeadIsIgnored ==
    /\ (IsSome(back_to) /\ BackToRef = gitHead) =>
          /\ rev = HEAD
          /\ \A i \in 1..Len(prefixes) :
                (Resolved(i) /\ TouchedBy(i) \in Commits) =>
                    prefixes[i] = Some(CommitId(TouchedBy(i)) \o <<" ">>)
    /\ (IsSome(back_to) /\ BackToRef \notin {0, gitHead}) =>
          /\ rev = Range(merge_base(gitHead, BackToRef))
          /\ \A i \in 1..Len(prefixes) :
                (Resolved(i) /\ TouchedBy(i) \in Commits) =>
                    prefixes[i] = IF TouchedBy(i) <= merge_base(gitHead, BackToRef)
                                  THEN Some(Filled("·", WidthAt(i)))
                                  ELSE Some(CommitId(TouchedBy(i)) \o <<" ">>)

\* with back-to resolving to head's identifier, a line of the first commit kept its identifier
C10_Witness ==
    /\ IsSome(back_to) /\ BackToRef = gitHead
    /\ \E i \in 1..Len(prefixes) :
        Resolved(i) /\ TouchedBy(i) = 1 /\ prefixes[i] = Some(CommitId(1) \o <<" ">>)

(***************************************************************************)
(* C11: the candidate summary prints the lines of the batch result in      *)
(* ascending order of their leading numeric timestamp, a line whose first  *)
(* field is missing or not a number counting as timestamp zero, lines with *)
(* equal timestamps in their batch order; each printed line is the record  *)
(* without its timestamp field, the remaining text unchanged.              *)
(***************************************************************************)
\* the first field of a record: its characters up to the first space
FirstField(l) ==
    LET spaces == {i \in 1..Len(l) : l[i] = " "}
    IN  IF spaces = {} THEN l ELSE SubSeq(l, 1, (CHOOSE i \in spaces : \A j \in spaces : i <= j) - 1)
Timestamp(l) == IF IsSome(parse_u32(FirstField(l))) THEN Unwrap(parse_u32(FirstField(l))) ELSE 0
\* the record after its first field and the space that ends it
Remaining(l) == SubSeq(l, Len(FirstField(l)) + 2, Len(l))
\* p lists the positions of the batch in ascending, stable order of timestamp
IsStableOrder(p, batch) ==
    \A i, j \in 1..Len(batch) :
        i < j => \/ Timestamp(batch[p[i]]) < Timestamp(batch[p[j]])
                 \/ Timestamp(batch[p[i]]) = Timestamp(batch[p[j]]) /\ p[i] < p[j]

C11_SummarySortedAndUnchanged ==
    IsSome(shown) =>
        /\ Len(summary) = Len(Unwrap(shown))
        /\ \E p \in Orders(1..Len(Unwrap(shown))) :
              /\ IsStableOrder(p, Unwrap(shown))
              /\ \A i \in 1..Len(summary) : summary[i] = Remaining(Unwrap(shown)[p[i]])

\* a summary of three records with timestamps 10, 3 and 7 was written
C11_Witness ==
    /\ IsSome(shown) /\ Len(Unwrap(shown)) = 3
    /\ {Timestamp(Unwrap(shown)[i]) : i \in 1..3} = {10, 3, 7}
    /\ summary = <<<<"b">>, <<"e">>, <<"a">>>>

(***************************************************************************)
(* C12: if the blame query for a hunk fails, the run ends with an error:   *)
(* neither the failing hunk's header nor any later input line is written   *)
(* to the output, in direct and in wrapping mode; no line of that hunk is  *)
(* given a prefix, the query is not retried, and the candidate summary is  *)
(* not produced.                                                           *)
(***************************************************************************)
FailedBlames == {n \in 1..Len(blames) : ~blames[n].q.ok}

C12_BlameFailureIsFatal ==
    \A n \in FailedBlames :
        /\ n = Len(blames) /\ Cardinality(FailedBlames) = 1
        /\ Len(input) = blames[n].at
        /\ Len(prefixes) = blames[n].at - 1
        /\ Len(out) < blames[n].at
        /\ \A j \in 1..Len(out) :
              out[j] = (IF prefixes[j] = None THEN <<>> ELSE prefixes[j][1])
                       \o (IF IsSome(inner) THEN Transform(Unwrap(inner), input[j]) ELSE input[j])
        /\ status = "err"
        /\ pc \in {"join", "failed"}
        /\ shown = None /\ summary = <<>>

\* a wrapping-mode run with a format ended in error after a failed blame query,
\* the lines before the failing header written
C12_Witness ==
    /\ IsSome(inner) /\ IsSome(format)
    /\ FailedBlames # {}
    /\ pc = "failed"
    /\ Len(input) >= 3 /\ Len(out) = Len(input) - 1
    /\ input[Len(input)] = Hunk

(***************************************************************************)
(* C13: when a format is configured, the summary has exactly one entry per *)
(* identifier in the candidate set and no entry for any other revision; in *)
(* particular it is empty when the candidate set is empty.                 *)
(***************************************************************************)
\* the summary entry of a revision: its record without the timestamp field
EntryOf(id) == Remaining(gitLog[CommitOf(id)][1])

C13_OneEntryPerCandidate ==
    IsSome(shown) =>
        /\ Len(summary) = Cardinality(candidates)
        /\ \A c \in candidates : \E i \in 1..Len(summary) : summary[i] = EntryOf(c)
        /\ \A i \in 1..Len(summary) : \E c \in candidates : summary[i] = EntryOf(c)
        /\ candidates = {} => summary = <<>>

\* a run that collected no identifier wrote a summary
C13_Witness ==
    /\ pc = "done" /\ IsSome(shown) /\ candidates = {}
    /\ Len(input) >= 1

(***************************************************************************)
(* C14: whenever a prefix is emitted, the display width used for           *)
(* placeholders and fillers is at least 6, also for added and unresolved   *)
(* lines read before any hunk has been resolved and in hunks read while no *)
(* current file is known.                                                  *)
(***************************************************************************)
C14_WidthAtLeastAbbrev ==
    \A i \in 1..Len(prefixes) :
        IsSome(prefixes[i]) => Len(Unwrap(prefixes[i])) >= ABBREV + 1

\* an added line of a hunk read while no file is known was given a prefix
C14_Witness ==
    \E i \in 1..Len(prefixes) :
        /\ LineKind(input[i]) = "added" /\ IsSome(prefixes[i])
        /\ LastHunk(i) > 0 /\ ~Blamed(LastHunk(i))
        /\ blames = <<>>

(***************************************************************************)
(* C15: at a hunk header with old range start S and count C for a known    *)
(* file exactly one blame query is issued; it covers the old lines S to    *)
(* S+C-1, the revision list becomes its result with one entry per line of  *)
(* that range, and the cursor is reset to S; no other kind of line issues  *)
(* a query.                                                                *)
(***************************************************************************)
\* start and count of the old range of the header read at position h
OldStart(h) == Unwrap(parse_u32(split(Tail(split_whitespace(strip_str(input[h]))[2]), ",")[1]))
OldCount(h) == HunkCount(split_whitespace(strip_str(input[h]))[2])

C15_BlameCoversOldRange ==
    /\ \A n \in 1..Len(blames) :
          /\ LineKind(input[blames[n].at]) = "hunk"
          /\ \A m \in 1..Len(blames) : blames[m].at = blames[n].at => m = n
          /\ blames[n].q.from = OldStart(blames[n].at)
          /\ blames[n].q.to = OldStart(blames[n].at) + OldCount(blames[n].at) - 1
          /\ (blames[n].q.ok /\ Len(touched) >= blames[n].q.to) =>
                Len(blames[n].q.ids) = OldCount(blames[n].at)
    /\ (blames # <<>> /\ blames[Len(blames)].at = Len(input) /\ blames[Len(blames)].q.ok) =>
          /\ commits = blames[Len(blames)].q.ids
          /\ offset = OldStart(Len(input))

\* a header with old range 2,2 for a known file of four lines was answered
C15_Witness ==
    /\ blames # <<>> /\ blames[Len(blames)].at = Len(input) /\ blames[Len(blames)].q.ok
    /\ input[Len(input)] = Hunk /\ Len(touched) = 4
    /\ offset = 2

(***************************************************************************)
(* C16: after a file-old-marker whose path lacks the prefix "a/" (the      *)
(* sentinel of a nonexistent file) the current file is cleared; every hunk *)
(* header up to the next file-old-marker issues no blame query and clears  *)
(* the revision list, so every context or removed line of those hunks gets *)
(* the unresolved placeholder and no revision of an earlier file's hunk is *)
(* reused.                                                                 *)
(***************************************************************************)
\* the position of the last file-old-marker before line i (0: none)
LastOld(i) ==
    LET os == {o \in 1..(i - 1) : LineKind(input[o]) = "old"}
    IN  IF os = {} THEN 0 ELSE CHOOSE o \in os : \A g \in os : g <= o
\* the file-old-marker at position o names no path under "a/"
IsSentinel(o) == ~starts_with(strip_str(input[o]), <<"-", "-", "-", " ", "a", "/">>)
\* line i follows a sentinel file-old-marker, with no other file-old-marker in between
AfterSentinel(i) == LastOld(i) > 0 /\ IsSentinel(LastOld(i))

C16_SentinelFileIsNotBlamed ==
    /\ AfterSentinel(Len(input) + 1) => file = None
    /\ \A n \in 1..Len(blames) : ~AfterSentinel(blames[n].at)
    /\ \A i \in 1..Len(prefixes) :
          (Cursored(input[i]) /\ LastHunk(i) > 0 /\ AfterSentinel(LastHunk(i))) =>
              /\ IsFilled(Unwrap(prefixes[i]), "?")
              /\ Unwrap(prefixes[i]) \notin {c \o <<" ">> : c \in candidates}
    /\ (LastHunk(Len(input) + 1) > 0 /\ AfterSentinel(LastHunk(Len(input) + 1))
         /\ pc \in {"diff", "done"}) => commits = <<>>

\* after a blamed hunk of a known file, a context line of a hunk of the sentinel file
\* was given the unresolved placeholder
C16_Witness ==
    /\ Len(prefixes) = 5
    /\ Blamed(2)
    /\ input[3] = FileOldNull /\ input[4] = Hunk /\ input[5] = Context
    /\ prefixes[5] = Some(Filled("?", maxlen)) /\ maxlen >= ABBREV
    /\ offset = 3

(***************************************************************************)
(* C17: in wrapping mode the filter's input pipe is closed only after      *)
(* every input line has been written to it, the run completes only after   *)
(* the draining activity has read the filter's output to its end and       *)
(* exited, and the candidate summary is queried and written only after     *)
(* that: no annotated line is written once the summary has begun.          *)
(***************************************************************************)
\* the lines written to the filter's input so far (the filter emits one line per line)
Fed == Len(stdin) + Len(held) + Len(stdout) + Len(dline) + Len(out)
Drained == dpc = "exit" /\ stdout = <<>> /\ ~stdoutOpen /\ dline = None /\ held = <<>> /\ stdin = <<>>

C17_CloseJoinThenSummary ==
    /\ [](~stdinOpen => /\ pc \notin {"feed", "write"} /\ line = None
                        /\ status = "ok" => (todo = <<>> /\ Fed = Len(input)))
    /\ [](Ended => Drained)
    /\ [](pc = "done" => Len(out) = Len(input))
    /\ []((IsSome(shown) \/ summary # <<>>) => (pc = "done" /\ Drained))
    /\ [][IsSome(shown) => out' = out]_vars

\* a run through the filter ended with its lines written and a summary of two entries
C17_Witness ==
    /\ IsSome(inner) /\ pc = "done"
    /\ Len(out) >= 4 /\ Len(out) = Len(input)
    /\ IsSome(shown) /\ Len(summary) = 2

(***************************************************************************)
(* C18: a hunk header whose old-range start or count is missing or not a   *)
(* number (a start with no count included) aborts the run: the header and  *)
(* all later lines are not emitted, no blame query is issued for it, and   *)
(* the run does not complete successfully.                                 *)
(***************************************************************************)
MalformedRange(old) ==
    \/ ~IsSome(parse_u32(old[1]))
    \/ Len(old) < 2
    \/ ~IsSome(parse_u32(old[2]))
MalformedHeader(l) ==
    \/ Len(split_whitespace(l)) < 2
    \/ MalformedRange(split(Tail(split_whitespace(l)[2]), ","))
\* the line read at position h is a malformed hunk header
Malformed(h) == LineKind(input[h]) = "hunk" /\ MalformedHeader(strip_str(input[h]))

C18_MalformedHeaderAborts ==
    \A h \in 1..Len(input) :
        Malformed(h) =>
            /\ Len(input) = h
            /\ Len(out) < h /\ Len(prefixes) < h
            /\ \A n \in 1..Len(blames) : blames[n].at # h
            /\ status # "ok" /\ pc # "done"

\* a header with a start and no count was read for a known file, and the run was aborted
C18_Witness ==
    /\ Len(input) >= 2 /\ input[Len(input)] = HunkNoCount
    /\ file = Some(RepoFile)
    /\ pc = "panicked" /\ Len(out) = Len(input) - 1

(***************************************************************************)
(* C19: in wrapping mode, in every reachable state the entries enqueued    *)
(* are at least as many as the lines written to the filter's input (the    *)
(* entry of a line is enqueued before the line is written), so whenever a  *)
(* line-preserving filter has produced its j-th line the j-th entry        *)
(* exists, and the drainer never waits for an entry of a line the filter   *)
(* has already seen.                                                       *)
(***************************************************************************)
\* the entries enqueued so far: those waiting and those taken, one per line written out
Enqueued == Len(queue) + Len(out)
\* the lines the filter has produced so far
Produced == Len(stdout) + Len(dline) + Len(out)

C19_EntryBeforeLine ==
    /\ Enqueued >= Fed
    /\ Enqueued >= Produced
    /\ pc = "write" => Enqueued = Fed + 1
    /\ dpc = "recv" => queue # <<>>

\* an entry was enqueued for a line not yet written while the drainer held the line before it
C19_Witness ==
    /\ pc = "write" /\ dpc = "recv"
    /\ Len(out) >= 1
    /\ Len(queue) = 2 /\ queue[1] # queue[2]

(***************************************************************************)
(* C20: in wrapping mode the queue's sending side is not closed before the *)
(* draining activity is joined, so the drainer's queue-closed error is     *)
(* unreachable: if the filter writes more lines than entries are enqueued, *)
(* the drainer blocks forever on the empty queue, and the run never        *)
(* completes and reports no error.                                         *)
(***************************************************************************)
\* the drainer holds a line and waits for an entry while the main flow waits for the drainer
DrainerStuck == dpc = "recv" /\ queue = <<>> /\ dline # None /\ pc = "join"

C20_DrainerBlocksForever ==
    /\ [](dpc # "error")
    /\ [](surplus > 0 => pc \notin {"done", "failed", "panicked"})
    /\ [](surplus > 0 => <>[]DrainerStuck)

\* the filter wrote a line of its own, every entry was taken, and the drainer waits
C20_Witness ==
    /\ surplus > 0 /\ DrainerStuck
    /\ Len(prefixes) >= 3 /\ Len(out) = Len(prefixes)
    /\ ~stdinOpen /\ status = "ok"

====
